---- MODULE Spec2Model ----
(***************************************************************************)
(* A model of the piko ledger (mempool, sealing cycle, persistence of      *)
(* blocks and transactions) and of its real-time connection pool.          *)
(*                                                                         *)
(* Strings are modelled as values compared by equality.  A SHA-256 digest  *)
(* is the record [k |-> "sha", data |-> <what was hashed>, low |-> n]:     *)
(* `data` makes the digest collision-free, and `low` is the value of the   *)
(* digest's last two hex characters, computed from the hashed data, so     *)
(* that the proof-of-work test hash[len-2:] == "00" is `low = 0`.          *)
(* An optional value (a Go nil pointer, nil interface or SQL NULL) is the  *)
(* empty sequence, a present value v is <<v>>.                             *)
(***************************************************************************)
EXTENDS Integers, Sequences, FiniteSets, TLC

(***************************************************************************)
(* Bounds of the model.                                                    *)
(***************************************************************************)
MaxTime == 1
MaxAdds == 2
MaxArrays == 5
MaxBatch == 3

(***************************************************************************)
(* Program constants.                                                      *)
(***************************************************************************)
HexTail == 256
TicksPerSecond == 2

TransactionTypeMessage == "message"
TransactionTypeChannelMessage == "channel_message"
TransactionTypeChannelCreate == "channel_create"

MessageIDs == {"m1"}
ChannelMessageIDs == {"c1"}

\* The references handlers can submit: (kind, referenced entity id).
Refs ==
  {<<TransactionTypeMessage, "m1">>, <<TransactionTypeChannelMessage, "c1">>,
   <<TransactionTypeChannelCreate, "ch1">>}

VARIABLES
  now,            \* the wall clock read by time.Now()
  Capacity,       \* Mempool.Capacity (cfg.MempoolCapacity)
  Transactions,   \* Mempool.Transactions
  LatestBlock,    \* Blockchain.LatestBlock: <<>> (nil) or <<block>>
  sealPc,         \* where the block creation goroutine is
  snap,           \* createBlock: the local `transactions`
  block,          \* createBlock: the local `block`: <<>> or <<block>>
  idx,            \* createBlock: position of the range loop over `transactions`
  blocks,         \* table blocks: rows in insertion order
  transactions,   \* table transactions: rows in insertion order
  msgBlockID,     \* messages.block_id by message id
  chMsgBlockID,   \* channel_messages.block_id by channel message id
  nAdds,          \* number of MempoolTransaction values allocated so far
  lastAdd,        \* outcome of the last AddToMempool call of this run
  added,          \* the entries added since the mempool was created or last cleared
  tick,           \* record of the sealing tick in progress or last completed
  initResult,     \* what the last call of Initialize in this process returned
  mempoolMu       \* Mempool.mu: "unlocked", or the goroutine that holds it

ledgerVars ==
  <<now, Capacity, Transactions, LatestBlock, sealPc, snap, block, idx, blocks,
    transactions, msgBlockID, chMsgBlockID, nAdds, lastAdd, added, tick, initResult,
    mempoolMu>>

VARIABLES
  Clients,        \* Pool.Clients: by address, <<>> (no entry) or <<client>>
  poolPc,         \* where the goroutine running Pool.Start is
  poolClient,     \* Pool.Start: the local `client` of the case being run
  cliPc,          \* where the goroutine serving each connection is
  cliAddr,        \* Client.Address of each connection
  cliOut,         \* the message a connection's goroutine is sending on Broadcast
  conn,           \* the messages written to each connection
  reqPc,          \* where each HTTP request goroutine is
  reqOut,         \* the message an HTTP request goroutine is sending on Broadcast
  sweepPc,        \* where the goroutine spawned at a connection's registration is
  stale,          \* the pending messages a goroutine fetched and has still to mark
  msgStatus,      \* messages.status by message id
  broken,         \* the connections on which WriteJSON fails
  writeErrors,    \* the connections for which SendMessage has logged a write error
  ignored         \* the connections for which Read has logged a frame it ignored

poolVars ==
  <<Clients, poolPc, poolClient, cliPc, cliAddr, cliOut, conn, reqPc, reqOut, sweepPc,
    stale, msgStatus, broken, writeErrors, ignored>>

VARIABLES
  arrays,         \* the backing arrays allocated for slices of *MempoolTransaction
  mTransactions,  \* Mempool.Transactions as a slice: its array, offset and length
  got,            \* what the last call of Mempool.GetTransactions returned
  call,           \* the last call of a hash function: <<>> or <<function, arguments>>
  result          \* what that call returned

unitVars == <<arrays, mTransactions, got, call, result>>

vars == <<ledgerVars, poolVars, unitVars>>

Min(a, b) == IF a < b THEN a ELSE b

(***************************************************************************)
(* Hash primitives.                                                        *)
(***************************************************************************)
ZeroHash == [k |-> "zeros", low |-> 0]
GenesisRoot == [k |-> "genesis", low |-> 115]

StrCode(s) ==
  CASE s = TransactionTypeMessage -> 1
    [] s = TransactionTypeChannelMessage -> 2
    [] s = TransactionTypeChannelCreate -> 3
    [] s = "m1" -> 4
    [] s = "c1" -> 6
    [] OTHER -> 7

calculateBlockHash(previousHash, timestamp, merkleRoot, nonce) ==
  LET prevHash == IF previousHash = <<>> THEN ZeroHash ELSE previousHash[1]
  IN  [k |-> "sha",
       data |-> <<prevHash, timestamp, merkleRoot, nonce>>,
       low |-> (3 * prevHash.low + 5 * timestamp + 7 * merkleRoot.low + nonce) % HexTail]

calculateTransactionHash(txType, dataID, blockID, t) ==
  [k |-> "sha",
   data |-> <<txType, dataID, blockID, t>>,
   low |-> (StrCode(txType) + StrCode(dataID) + blockID.low + t) % HexTail]

\* A leaf hash that leaves the timestamp out of the hashed string.
LeafHash_NoTimestamp(tx) ==
  [k |-> "sha",
   data |-> tx.Type \o tx.DataID,
   low |-> (11 * StrCode(tx.Type) + 13 * StrCode(tx.DataID)) % HexTail]

\* The leaf of an entry: the digest of fmt.Sprintf("%s%s%d", Type, DataID,
\* Timestamp.UnixNano()), the three fields written one after the other.
LeafHash(tx) ==
  [k |-> "sha",
   data |-> tx.Type \o tx.DataID \o ToString(tx.Timestamp),
   low |-> (11 * StrCode(tx.Type) + 13 * StrCode(tx.DataID) + 17 * tx.Timestamp) % HexTail]

PairHash(l, r) ==
  [k |-> "sha", data |-> <<l, r>>, low |-> (3 * l.low + 5 * r.low + 1) % HexTail]

RECURSIVE MerkleLevel(_)
MerkleLevel(hashes) ==
  IF Len(hashes) <= 1 THEN hashes
  ELSE LET padded == IF Len(hashes) % 2 # 0
                     THEN Append(hashes, hashes[Len(hashes)])
                     ELSE hashes
           paired == [i \in 1..(Len(padded) \div 2) |->
                        PairHash(padded[2 * i - 1], padded[2 * i])]
       IN  MerkleLevel(paired)

calculateMerkleRoot(txs) ==
  IF Len(txs) = 0 THEN ZeroHash
  ELSE MerkleLevel([i \in 1..Len(txs) |-> LeafHash(txs[i])])[1]

\* A calculateNonce that accepts a block hash ending in a single "0".
calculateNonce_OneZero(previousHash, timestamp, merkleRoot) ==
  CHOOSE nonce \in 0..(HexTail - 1) :
    /\ calculateBlockHash(<<previousHash>>, timestamp, merkleRoot, nonce).low % 16 = 0
    /\ \A tried \in 0..(nonce - 1) :
         calculateBlockHash(<<previousHash>>, timestamp, merkleRoot, tried).low % 16 # 0

\* The nonces 0, 1, 2, ... are tried in turn and the first whose block hash ends
\* in "00" is returned: every nonce tried before it was refused.  The last two
\* hex characters of the modelled digest run through all HexTail values as the
\* nonce grows, so the search ends below HexTail.
calculateNonce(previousHash, timestamp, merkleRoot) ==
  CHOOSE nonce \in 0..(HexTail - 1) :
    /\ calculateBlockHash(<<previousHash>>, timestamp, merkleRoot, nonce).low = 0
    /\ \A tried \in 0..(nonce - 1) :
         calculateBlockHash(<<previousHash>>, timestamp, merkleRoot, tried).low # 0

(***************************************************************************)
(* Persistence.                                                            *)
(***************************************************************************)
\* CURRENT_TIMESTAMP of a TIMESTAMP column: the clock cut to whole seconds.
CurrentTimestamp(t) == t - (t % TicksPerSecond)

\* The row INSERT INTO blocks (id, previous_hash, merkle_root, nonce, height)
\* makes: the timestamp column takes its default.
BlockRow(b, t) ==
  [ID |-> b.ID, PreviousHash |-> b.PreviousHash, Timestamp |-> CurrentTimestamp(t),
   MerkleRoot |-> b.MerkleRoot, Nonce |-> b.Nonce, Height |-> b.Height]

\* id is the primary key of blocks.
CanCreateBlock(b) == \A i \in 1..Len(blocks) : blocks[i].ID # b.ID

\* hash is the primary key of transactions.
CanCreateTransaction(t) == \A i \in 1..Len(transactions) : transactions[i].Hash # t.Hash

\* SELECT ... FROM blocks ORDER BY height DESC LIMIT 1
GetLatestBlock ==
  {blocks[i] : i \in {j \in 1..Len(blocks) :
                        \A l \in 1..Len(blocks) : blocks[l].Height <= blocks[j].Height}}

UpdateMessageBlockID(id, blockID) ==
  IF id \in MessageIDs THEN [msgBlockID EXCEPT ![id] = <<blockID>>] ELSE msgBlockID

\* UpdateChannelMessageBlockID whose UPDATE matches no row.
UpdateChannelMessageBlockID_NoRow(id, blockID) == chMsgBlockID

UpdateChannelMessageBlockID(id, blockID) ==
  IF id \in ChannelMessageIDs THEN [chMsgBlockID EXCEPT ![id] = <<blockID>>] ELSE chMsgBlockID

(***************************************************************************)
(* Mempool.                                                                *)
(***************************************************************************)
\* GetTransactions without the test for an empty mempool.
GetTransactions_NoEmptyError(txs) == [transactions |-> txs, err |-> FALSE]

\* GetTransactions: the copy returned, and whether ErrEmptyMempool is returned.
GetTransactions(txs) ==
  IF Len(txs) = 0 THEN [transactions |-> <<>>, err |-> TRUE]
  ELSE [transactions |-> txs, err |-> FALSE]

\* AddTransaction panics when it slices [1:] an empty slice.
AddTransactionPanics(txs, capacity) == Len(txs) >= capacity /\ Len(txs) = 0

\* AddTransaction with the capacity test off by one.
\* An AddTransaction that never evicts.
AddTransaction_NoEviction(txs, capacity, tx) == Append(txs, tx)

AddTransaction_OffByOne(txs, capacity, tx) ==
  Append(IF Len(txs) > capacity THEN SubSeq(txs, 2, Len(txs)) ELSE txs, tx)

AddTransaction(txs, capacity, tx) ==
  Append(IF Len(txs) >= capacity THEN SubSeq(txs, 2, Len(txs)) ELSE txs, tx)

Clear == <<>>

\* m.mu.Lock() (or RLock) at the start of a method of Mempool and the deferred
\* Unlock at its return: the method waits for the lock and leaves it unlocked.
WithMempoolLock == mempoolMu = "unlocked" /\ mempoolMu' = "unlocked"

(***************************************************************************)
(* The record kept of a sealing tick: how it ended, whether a persistence   *)
(* call failed in it (and, while it runs, for which snapshot positions the  *)
(* transaction insert or the back-fill failed), whether an entry was added *)
(* while it ran and, while it runs, what it started from.  It is kept      *)
(* until the next call or tick.                                            *)
(***************************************************************************)
NoTick ==
  [outcome |-> "none", head0 |-> <<>>, nBlocks0 |-> 0, nTx0 |-> 0, snap0 |-> <<>>,
   msg0 |-> <<>>, ch0 |-> <<>>, failures |-> FALSE, adds |-> FALSE, failed |-> {},
   unfilled |-> {}]

LedgerInit ==
  /\ now = 0
  /\ Capacity \in 0..MaxAdds
  /\ Transactions = <<>>
  /\ LatestBlock = <<>>
  /\ sealPc = "off"
  /\ snap = <<>>
  /\ block = <<>>
  /\ idx = 0
  /\ blocks = <<>>
  /\ transactions = <<>>
  /\ msgBlockID = [m \in MessageIDs |-> <<>>]
  /\ chMsgBlockID = [m \in ChannelMessageIDs |-> <<>>]
  /\ nAdds = 0
  /\ lastAdd = "none"
  /\ added = <<>>
  /\ tick = NoTick
  /\ initResult = "none"
  /\ mempoolMu = "unlocked"

\* The clock moves on.
ClockAdvance ==
  /\ now < MaxTime
  /\ now' = now + 1
  /\ UNCHANGED <<poolVars, unitVars, initResult, mempoolMu, Capacity, Transactions,
                 LatestBlock, sealPc,
                 snap,
                 block, idx, blocks,
                 transactions, msgBlockID, chMsgBlockID, nAdds, lastAdd, added, tick>>

(***************************************************************************)
(* Initialize.                                                             *)
(***************************************************************************)
\* A genesis block whose merkle root is the root of an empty batch.
GenesisBlock_EmptyRoot(t1, t2) ==
  [ID |-> calculateBlockHash(<<>>, t1, ZeroHash, 0), PreviousHash |-> <<>>,
   Timestamp |-> t2, MerkleRoot |-> ZeroHash, Nonce |-> 0, Height |-> 0]

\* The block createGenesisBlock builds: the id hashes the first reading of the
\* clock, the Timestamp field is a second reading.
GenesisBlock(t1, t2) ==
  [ID |-> calculateBlockHash(<<>>, t1, GenesisRoot, 0), PreviousHash |-> <<>>,
   Timestamp |-> t2, MerkleRoot |-> GenesisRoot, Nonce |-> 0, Height |-> 0]

\* GetLatestBlock reports ErrBlockNotFound and the genesis block is persisted.
InitializeGenesis ==
  /\ \E t2 \in now..Min(now + 1, MaxTime) :
       LET genesisBlock == GenesisBlock(now, t2) IN
         /\ CanCreateBlock(genesisBlock)
         /\ now' = t2
         /\ blocks' = Append(blocks, BlockRow(genesisBlock, t2))
         /\ LatestBlock' = <<genesisBlock>>
  /\ sealPc' = "wait"
  /\ initResult' = "ok"
  /\ UNCHANGED <<poolVars, unitVars, mempoolMu, Capacity, Transactions, snap, block, idx,
                 transactions,
                 msgBlockID,
                 chMsgBlockID, nAdds, lastAdd, added, tick>>

\* The latest block is loaded from the database.
InitializeLoad ==
  /\ \E latestBlock \in GetLatestBlock : LatestBlock' = <<latestBlock>>
  /\ sealPc' = "wait"
  /\ initResult' = "ok"
  /\ UNCHANGED <<poolVars, unitVars, mempoolMu, now, Capacity, Transactions, snap, block, idx,
                 blocks,
                 transactions,
                 msgBlockID, chMsgBlockID, nAdds, lastAdd, added, tick>>

\* Initialize, GetLatestBlock succeeding or reporting ErrBlockNotFound and
\* every later call succeeding: the head is set and the block creation
\* goroutine is started.
Initialize ==
  /\ sealPc = "off"
  /\ initResult # "ok"
  /\ IF GetLatestBlock = {} THEN InitializeGenesis ELSE InitializeLoad

\* The errors Initialize returns.
InitializeErrors == {"failed to get latest block", "failed to create genesis block"}

\* Initialize that starts the block creation goroutine although it failed.
InitializeFail_StartsCycle(err) ==
  /\ sealPc = "off"
  /\ initResult # "ok"
  /\ err = "failed to create genesis block" => GetLatestBlock = {}
  /\ initResult' = err
  /\ sealPc' = "wait"
  /\ UNCHANGED <<poolVars, unitVars, mempoolMu, now, Capacity, Transactions, LatestBlock, snap,
                 block,
                 idx, blocks,
                 transactions, msgBlockID, chMsgBlockID, nAdds, lastAdd, added, tick>>

\* GetLatestBlock fails with an error that is not ErrBlockNotFound, or the
\* table is empty and the genesis block cannot be persisted: Initialize
\* returns the error before it starts anything.
InitializeFail(err) ==
  /\ sealPc = "off"
  /\ initResult # "ok"
  /\ err = "failed to create genesis block" => GetLatestBlock = {}
  /\ initResult' = err
  /\ UNCHANGED <<poolVars, unitVars, mempoolMu, now, Capacity, Transactions, LatestBlock,
                 sealPc, snap,
                 block, idx,
                 blocks, transactions, msgBlockID, chMsgBlockID, nAdds, lastAdd, added, tick>>

(***************************************************************************)
(* AddToMempool.                                                           *)
(***************************************************************************)
AddToMempool(txType, dataID) ==
  LET tx == [Type |-> txType, DataID |-> dataID, Timestamp |-> now, ptr |-> nAdds + 1] IN
    /\ nAdds < MaxAdds
    /\ nAdds' = nAdds + 1
    /\ IF AddTransactionPanics(Transactions, Capacity)
       THEN /\ lastAdd' = "panic"
            /\ UNCHANGED <<Transactions, added>>
       ELSE /\ lastAdd' = "ok"
            /\ Transactions' = AddTransaction(Transactions, Capacity, tx)
            /\ added' = Append(added, tx)
    /\ tick' = IF sealPc \in {"persist", "txs", "clear"}
               THEN [tick EXCEPT !.adds = TRUE] ELSE NoTick
    /\ WithMempoolLock
    /\ UNCHANGED <<poolVars, unitVars, initResult, now, Capacity, LatestBlock, sealPc, snap,
                   block, idx,
                   blocks,
                   transactions, msgBlockID, chMsgBlockID>>

(***************************************************************************)
(* createBlock, one sealing tick of startBlockCreation.                    *)
(***************************************************************************)
\* NewBlock that forgets to add one to the height.
NewBlock_SameHeight(latestBlock, txs, t) ==
  LET merkleRoot == calculateMerkleRoot(txs)
      nonce == calculateNonce(latestBlock.ID, t, merkleRoot)
  IN  [ID |-> calculateBlockHash(<<latestBlock.ID>>, t, merkleRoot, nonce),
       PreviousHash |-> <<latestBlock.ID>>, Timestamp |-> t, MerkleRoot |-> merkleRoot,
       Nonce |-> nonce, Height |-> latestBlock.Height]

\* The block createBlock builds on `latestBlock` from the snapshot at time t.
NewBlock(latestBlock, txs, t) ==
  LET merkleRoot == calculateMerkleRoot(txs)
      nonce == calculateNonce(latestBlock.ID, t, merkleRoot)
  IN  [ID |-> calculateBlockHash(<<latestBlock.ID>>, t, merkleRoot, nonce),
       PreviousHash |-> <<latestBlock.ID>>, Timestamp |-> t, MerkleRoot |-> merkleRoot,
       Nonce |-> nonce, Height |-> latestBlock.Height + 1]

\* The tick finds the mempool empty: ErrEmptyMempool, the tick is skipped.
SealSkip ==
  /\ sealPc = "wait"
  /\ GetTransactions(Transactions).err
  /\ tick' = [NoTick EXCEPT !.outcome = "skipped"]
  /\ WithMempoolLock
  /\ UNCHANGED <<poolVars, unitVars, initResult, now, Capacity, Transactions, LatestBlock,
                 sealPc, snap,
                 block, idx,
                 blocks, transactions, msgBlockID, chMsgBlockID, nAdds, lastAdd, added>>

\* A tick that takes the snapshot and keeps the mempool locked.
SealBegin_HoldsLock ==
  /\ sealPc = "wait"
  /\ ~GetTransactions(Transactions).err
  /\ snap' = GetTransactions(Transactions).transactions
  /\ block' = <<NewBlock(LatestBlock[1], snap', now)>>
  /\ sealPc' = "persist"
  /\ tick' = [outcome |-> "running", head0 |-> LatestBlock, nBlocks0 |-> Len(blocks),
              nTx0 |-> Len(transactions), snap0 |-> snap', msg0 |-> msgBlockID,
              ch0 |-> chMsgBlockID, failures |-> FALSE, adds |-> FALSE, failed |-> {},
              unfilled |-> {}]
  /\ mempoolMu = "unlocked"
  /\ mempoolMu' = "startBlockCreation"
  /\ UNCHANGED <<poolVars, unitVars, initResult, now, Capacity, Transactions, LatestBlock, idx,
                 blocks,
                 transactions,
                 msgBlockID, chMsgBlockID, nAdds, lastAdd, added>>

\* The tick takes the snapshot and builds the block.
SealBegin ==
  /\ sealPc = "wait"
  /\ ~GetTransactions(Transactions).err
  /\ snap' = GetTransactions(Transactions).transactions
  /\ block' = <<NewBlock(LatestBlock[1], snap', now)>>
  /\ sealPc' = "persist"
  /\ tick' = [outcome |-> "running", head0 |-> LatestBlock, nBlocks0 |-> Len(blocks),
              nTx0 |-> Len(transactions), snap0 |-> snap', msg0 |-> msgBlockID,
              ch0 |-> chMsgBlockID, failures |-> FALSE, adds |-> FALSE, failed |-> {},
              unfilled |-> {}]
  /\ WithMempoolLock
  /\ UNCHANGED <<poolVars, unitVars, initResult, now, Capacity, Transactions, LatestBlock, idx,
                 blocks,
                 transactions,
                 msgBlockID, chMsgBlockID, nAdds, lastAdd, added>>

\* createBlock that clears the mempool as soon as the block is persisted.
SealPersistBlock_ClearsEarly ==
  /\ sealPc = "persist"
  /\ CanCreateBlock(block[1])
  /\ blocks' = Append(blocks, BlockRow(block[1], now))
  /\ Transactions' = Clear
  /\ added' = <<>>
  /\ sealPc' = "txs"
  /\ idx' = 1
  /\ WithMempoolLock
  /\ UNCHANGED <<poolVars, unitVars, initResult, now, Capacity, LatestBlock, snap, block,
                 transactions, msgBlockID, chMsgBlockID, nAdds, lastAdd, tick>>

\* models.CreateBlock(block) succeeds.
SealPersistBlock ==
  /\ sealPc = "persist"
  /\ CanCreateBlock(block[1])
  /\ blocks' = Append(blocks, BlockRow(block[1], now))
  /\ sealPc' = "txs"
  /\ idx' = 1
  /\ UNCHANGED <<poolVars, unitVars, initResult, mempoolMu, now, Capacity, Transactions,
                 LatestBlock,
                 snap, block,
                 transactions,
                 msgBlockID, chMsgBlockID, nAdds, lastAdd, added, tick>>

\* createBlock that clears the mempool although models.CreateBlock failed.
SealPersistBlockFail_ClearsMempool ==
  /\ sealPc = "persist"
  /\ sealPc' = "wait"
  /\ snap' = <<>>
  /\ block' = <<>>
  /\ Transactions' = Clear
  /\ added' = <<>>
  /\ tick' = [NoTick EXCEPT !.outcome = "failed", !.failures = TRUE, !.adds = tick.adds]
  /\ WithMempoolLock
  /\ UNCHANGED <<poolVars, unitVars, initResult, now, Capacity, LatestBlock, idx, blocks,
                 transactions,
                 msgBlockID, chMsgBlockID, nAdds, lastAdd>>

\* createBlock that sets the head to the block models.CreateBlock refused.
SealPersistBlockFail_SwapsHead ==
  /\ sealPc = "persist"
  /\ sealPc' = "wait"
  /\ LatestBlock' = block
  /\ snap' = <<>>
  /\ block' = <<>>
  /\ tick' = [NoTick EXCEPT !.outcome = "failed", !.failures = TRUE, !.adds = tick.adds]
  /\ UNCHANGED <<poolVars, unitVars, initResult, mempoolMu, now, Capacity, Transactions, idx,
                 blocks,
                 transactions, msgBlockID, chMsgBlockID, nAdds, lastAdd, added>>

\* models.CreateBlock(block) fails: createBlock returns the error.
SealPersistBlockFail ==
  /\ sealPc = "persist"
  /\ sealPc' = "wait"
  /\ snap' = <<>>
  /\ block' = <<>>
  /\ tick' = [NoTick EXCEPT !.outcome = "failed", !.failures = TRUE, !.adds = tick.adds]
  /\ UNCHANGED <<poolVars, unitVars, initResult, mempoolMu, now, Capacity, Transactions,
                 LatestBlock, idx,
                 blocks,
                 transactions,
                 msgBlockID, chMsgBlockID, nAdds, lastAdd, added>>

\* The transaction createBlock builds for a snapshot entry.
NewTransaction(tx, blockID, t) ==
  [Hash |-> calculateTransactionHash(tx.Type, tx.DataID, blockID, t), BlockID |-> blockID,
   Type |-> tx.Type, DataID |-> tx.DataID]

\* A loop that goes through the snapshot from its last entry to its first.
SealEntry_FromEnd ==
  /\ sealPc = "txs"
  /\ idx <= Len(snap)
  /\ LET tx == snap[Len(snap) + 1 - idx]
         transaction == NewTransaction(tx, block[1].ID, now)
     IN  /\ CanCreateTransaction(transaction)
         /\ transactions' = Append(transactions, transaction)
         /\ msgBlockID' = IF tx.Type = TransactionTypeMessage
                          THEN UpdateMessageBlockID(tx.DataID, block[1].ID)
                          ELSE msgBlockID
         /\ chMsgBlockID' = IF tx.Type = TransactionTypeChannelMessage
                            THEN UpdateChannelMessageBlockID(tx.DataID, block[1].ID)
                            ELSE chMsgBlockID
  /\ idx' = idx + 1
  /\ UNCHANGED <<poolVars, unitVars, initResult, mempoolMu, now, Capacity, Transactions,
                 LatestBlock,
                 sealPc, snap, block, blocks, nAdds, lastAdd, added, tick>>

\* A loop that also marks the message it seals as delivered.
SealEntry_MarksDelivered ==
  /\ sealPc = "txs"
  /\ idx <= Len(snap)
  /\ LET tx == snap[idx]
         transaction == NewTransaction(tx, block[1].ID, now)
     IN  /\ CanCreateTransaction(transaction)
         /\ transactions' = Append(transactions, transaction)
         /\ msgBlockID' = IF tx.Type = TransactionTypeMessage
                          THEN UpdateMessageBlockID(tx.DataID, block[1].ID)
                          ELSE msgBlockID
         /\ chMsgBlockID' = IF tx.Type = TransactionTypeChannelMessage
                            THEN UpdateChannelMessageBlockID(tx.DataID, block[1].ID)
                            ELSE chMsgBlockID
  /\ idx' = idx + 1
  /\ msgStatus' = IF snap[idx].Type = TransactionTypeMessage /\ snap[idx].DataID \in DOMAIN msgStatus
                   THEN [msgStatus EXCEPT ![snap[idx].DataID] = "delivered"]
                   ELSE msgStatus
  /\ UNCHANGED <<Clients, poolPc, poolClient, cliPc, cliAddr, cliOut, conn, reqPc, reqOut,
                 sweepPc, stale, broken, writeErrors, ignored>>
  /\ UNCHANGED <<unitVars, initResult, mempoolMu, now, Capacity, Transactions, LatestBlock,
                 sealPc, snap, block, blocks, nAdds, lastAdd, added, tick>>

\* One iteration of the loop: the transaction is persisted and the entity's
\* block id is updated.
SealEntry ==
  /\ sealPc = "txs"
  /\ idx <= Len(snap)
  /\ LET tx == snap[idx]
         transaction == NewTransaction(tx, block[1].ID, now)
     IN  /\ CanCreateTransaction(transaction)
         /\ transactions' = Append(transactions, transaction)
         /\ msgBlockID' = IF tx.Type = TransactionTypeMessage
                          THEN UpdateMessageBlockID(tx.DataID, block[1].ID)
                          ELSE msgBlockID
         /\ chMsgBlockID' = IF tx.Type = TransactionTypeChannelMessage
                            THEN UpdateChannelMessageBlockID(tx.DataID, block[1].ID)
                            ELSE chMsgBlockID
  /\ idx' = idx + 1
  /\ UNCHANGED <<poolVars, unitVars, initResult, mempoolMu, now, Capacity, Transactions,
                 LatestBlock,
                 sealPc, snap,
                 block, blocks,
                 nAdds, lastAdd, added, tick>>

\* A loop that returns from createBlock when CreateTransaction fails.
SealEntryTxFail_Aborts ==
  /\ sealPc = "txs"
  /\ idx <= Len(snap)
  /\ sealPc' = "wait"
  /\ snap' = <<>>
  /\ block' = <<>>
  /\ idx' = 0
  /\ tick' = [NoTick EXCEPT !.outcome = "failed", !.failures = TRUE, !.adds = tick.adds]
  /\ UNCHANGED <<poolVars, unitVars, initResult, mempoolMu, now, Capacity, Transactions,
                 LatestBlock, blocks,
                 transactions,
                 msgBlockID, chMsgBlockID, nAdds, lastAdd, added>>

\* A loop that updates the entity's block id although CreateTransaction failed.
SealEntryTxFail_UpdatesEntity ==
  /\ sealPc = "txs"
  /\ idx <= Len(snap)
  /\ msgBlockID' = IF snap[idx].Type = TransactionTypeMessage
                   THEN UpdateMessageBlockID(snap[idx].DataID, block[1].ID)
                   ELSE msgBlockID
  /\ chMsgBlockID' = IF snap[idx].Type = TransactionTypeChannelMessage
                     THEN UpdateChannelMessageBlockID(snap[idx].DataID, block[1].ID)
                     ELSE chMsgBlockID
  /\ idx' = idx + 1
  /\ tick' = [tick EXCEPT !.failures = TRUE, !.failed = @ \cup {idx}]
  /\ UNCHANGED <<poolVars, unitVars, initResult, mempoolMu, now, Capacity, Transactions,
                 LatestBlock,
                 sealPc, snap, block, blocks, transactions, nAdds, lastAdd, added>>

\* One iteration of the loop: CreateTransaction fails, the entry is skipped.
SealEntryTxFail ==
  /\ sealPc = "txs"
  /\ idx <= Len(snap)
  /\ idx' = idx + 1
  /\ tick' = [tick EXCEPT !.failures = TRUE, !.failed = @ \cup {idx}]
  /\ UNCHANGED <<poolVars, unitVars, initResult, mempoolMu, now, Capacity, Transactions,
                 LatestBlock,
                 sealPc, snap,
                 block, blocks,
                 transactions, msgBlockID, chMsgBlockID, nAdds, lastAdd, added>>

\* One iteration of the loop: the transaction is persisted, the update of the
\* entity's block id fails and is logged.
SealEntryUpdateFail ==
  /\ sealPc = "txs"
  /\ idx <= Len(snap)
  /\ snap[idx].Type \in {TransactionTypeMessage, TransactionTypeChannelMessage}
  /\ LET transaction == NewTransaction(snap[idx], block[1].ID, now)
     IN  /\ CanCreateTransaction(transaction)
         /\ transactions' = Append(transactions, transaction)
  /\ idx' = idx + 1
  /\ tick' = [tick EXCEPT !.failures = TRUE, !.unfilled = @ \cup {idx}]
  /\ UNCHANGED <<poolVars, unitVars, initResult, mempoolMu, now, Capacity, Transactions,
                 LatestBlock,
                 sealPc, snap,
                 block, blocks,
                 msgBlockID, chMsgBlockID, nAdds, lastAdd, added>>

\* createBlock that returns after the loop without setting the head.
SealSwapHead_ReturnsEarly ==
  /\ sealPc = "txs"
  /\ idx > Len(snap)
  /\ sealPc' = "wait"
  /\ snap' = <<>>
  /\ block' = <<>>
  /\ idx' = 0
  /\ tick' = [NoTick EXCEPT !.outcome = "failed", !.failures = TRUE, !.adds = tick.adds]
  /\ UNCHANGED <<poolVars, unitVars, initResult, mempoolMu, now, Capacity, Transactions,
                 LatestBlock,
                 blocks, transactions, msgBlockID, chMsgBlockID, nAdds, lastAdd, added>>

\* After the loop: bc.LatestBlock = block.
SealSwapHead ==
  /\ sealPc = "txs"
  /\ idx > Len(snap)
  /\ LatestBlock' = block
  /\ sealPc' = "clear"
  /\ UNCHANGED <<poolVars, unitVars, initResult, mempoolMu, now, Capacity, Transactions, snap,
                 block, idx,
                 blocks,
                 transactions,
                 msgBlockID, chMsgBlockID, nAdds, lastAdd, added, tick>>

\* bc.Mempool.Clear(), and createBlock returns.
SealClear ==
  /\ sealPc = "clear"
  /\ Transactions' = Clear
  /\ added' = <<>>
  /\ sealPc' = "wait"
  /\ snap' = <<>>
  /\ block' = <<>>
  /\ idx' = 0
  /\ tick' = [NoTick EXCEPT !.outcome = "sealed", !.nTx0 = tick.nTx0,
                             !.failures = tick.failures, !.adds = tick.adds]
  /\ WithMempoolLock
  /\ UNCHANGED <<poolVars, unitVars, initResult, now, Capacity, LatestBlock, blocks, transactions,
                 msgBlockID,
                 chMsgBlockID, nAdds, lastAdd>>

\* The process ends and is started again: database.Initialize runs initSchema,
\* which drops every table and creates it again, and NewBlockchain makes a new,
\* empty Blockchain.
Restart ==
  /\ sealPc # "off" \/ Transactions # <<>> \/ lastAdd # "none" \/ initResult # "none"
  /\ blocks' = <<>>
  /\ transactions' = <<>>
  /\ msgBlockID' = [m \in MessageIDs |-> <<>>]
  /\ chMsgBlockID' = [m \in ChannelMessageIDs |-> <<>>]
  /\ Transactions' = <<>>
  /\ LatestBlock' = <<>>
  /\ sealPc' = "off"
  /\ snap' = <<>>
  /\ block' = <<>>
  /\ idx' = 0
  /\ lastAdd' = "none"
  /\ added' = <<>>
  /\ tick' = NoTick
  /\ initResult' = "none"
  /\ mempoolMu' = "unlocked"
  /\ UNCHANGED <<poolVars, unitVars, now, Capacity, nAdds>>

LedgerNext ==
  \/ ClockAdvance
  \/ Initialize
  \/ \E err \in InitializeErrors : InitializeFail(err)
  \/ \E r \in Refs : AddToMempool(r[1], r[2])
  \/ SealSkip
  \/ SealBegin
  \/ SealPersistBlock
  \/ SealPersistBlockFail
  \/ SealEntry
  \/ SealEntryTxFail
  \/ SealEntryUpdateFail
  \/ SealSwapHead
  \/ SealClear
  \/ Restart

(***************************************************************************)
(* The connection pool: the registry of clients, the goroutine running     *)
(* Pool.Start, one goroutine per connection, and the HTTP handlers and     *)
(* library calls that write the delivery status of a message.              *)
(***************************************************************************)
ClientIDs == {"k1", "k2"}
Addresses == {"a1", "a2"}
Requests == {"r1", "r2"}

\* The message rows: m1 was sent by a2 to a1.
SenderAddress(m) == "a2"
RecipientAddress(m) == "a1"

MessageStatusPending == "pending"
MessageStatusDelivered == "delivered"
MessageStatusRead == "read"

\* A pool message: its type, its recipient ("" when it has none) and what its
\* payload is about.
Message(type, to, about) == [Type |-> type, To |-> to, About |-> about]

PoolInit ==
  /\ Clients = [a \in Addresses |-> <<>>]
  /\ poolPc = "select"
  /\ poolClient = <<>>
  /\ cliPc = [c \in ClientIDs |-> "new"]
  /\ cliAddr = [c \in ClientIDs |-> ""]
  /\ cliOut = [c \in ClientIDs |-> <<>>]
  /\ conn = [c \in ClientIDs |-> {}]
  /\ reqPc = [r \in Requests |-> "idle"]
  /\ reqOut = [r \in Requests |-> <<>>]
  /\ sweepPc = [c \in ClientIDs |-> "off"]
  /\ stale = [w \in Requests \cup ClientIDs |-> {}]
  /\ msgStatus = [m \in MessageIDs |-> MessageStatusPending]
  /\ broken = {}
  /\ writeErrors = {}
  /\ ignored = {}

\* UPDATE messages SET status = ? WHERE id = ?
UpdateMessageStatus(id, status) ==
  IF id \in MessageIDs THEN [msgStatus EXCEPT ![id] = status] ELSE msgStatus

\* WriteJSON fails on a closed connection and on one whose transport is broken.
WriteFails(client) == cliPc[client] = "closed" \/ client \in broken

\* client.SendMessage(message) on the connections `cn`: a write error is only
\* logged.
SendMessage(cn, client, message) ==
  IF WriteFails(client) THEN cn ELSE [cn EXCEPT ![client] = @ \cup {message}]

\* The write errors logged once SendMessage has been called for `clients`.
LogWriteErrors(clients) == writeErrors \cup {c \in clients : WriteFails(c)}

\* The sends on the pool's unbuffered channels that goroutines are blocked in.
PendingSends ==
  {[from |-> c, ch |-> "Register", msg |-> <<>>] : c \in {k \in ClientIDs : cliPc[k] = "register"}}
    \cup
  {[from |-> c, ch |-> "Unregister", msg |-> <<>>] :
     c \in {k \in ClientIDs : cliPc[k] = "unregister"}}
    \cup
  {[from |-> c, ch |-> "Broadcast", msg |-> cliOut[c]] :
     c \in {k \in ClientIDs : cliPc[k] = "broadcast"}}
    \cup
  {[from |-> r, ch |-> "Broadcast", msg |-> reqOut[r]] :
     r \in {q \in Requests : reqPc[q] = "broadcast"}}
    \cup
  (IF poolPc = "register"
   THEN {[from |-> "pool", ch |-> "Broadcast",
          msg |-> <<Message("presence", "", <<cliAddr[poolClient[1]], "online">>)>>]}
   ELSE IF poolPc = "unregister"
   THEN {[from |-> "pool", ch |-> "Broadcast",
          msg |-> <<Message("presence", "", <<cliAddr[poolClient[1]], "offline">>)>>]}
   ELSE {})

\* The goroutines blocked receiving on a channel of the pool: the select of
\* Pool.Start is the only receive on Register, Unregister and Broadcast.
Receivers(ch) == IF poolPc = "select" THEN {"pool"} ELSE {}

\* A send on an unbuffered channel completes when another goroutine receives.
ReadySends == {s \in PendingSends : Receivers(s.ch) \ {s.from} # {}}

\* A Register case that leaves the registry as it is.
StartRegister_NoEntry(c) ==
  /\ poolPc' = "register"
  /\ poolClient' = <<c>>
  /\ cliPc' = [cliPc EXCEPT ![c] = "read"]
  /\ UNCHANGED <<ledgerVars, unitVars, ignored, broken, writeErrors, Clients, cliAddr, cliOut,
                 conn, reqPc, reqOut, sweepPc, stale, msgStatus>>

\* case client := <-pool.Register, up to the send of the presence update; the
\* handler that sent the client goes on to client.Read().
StartRegister(c) ==
  /\ Clients' = [Clients EXCEPT ![cliAddr[c]] = <<c>>]
  /\ poolPc' = "register"
  /\ poolClient' = <<c>>
  /\ cliPc' = [cliPc EXCEPT ![c] = "read"]
  /\ UNCHANGED <<ledgerVars, unitVars, ignored, broken, writeErrors, cliAddr, cliOut, conn,
                 reqPc, reqOut,
                 sweepPc, stale, msgStatus>>

\* case client := <-pool.Unregister, up to the send of the presence update; the
\* deferred function of Read closes the connection.
StartUnregister(c) ==
  /\ Clients' = [Clients EXCEPT ![cliAddr[c]] = <<>>]
  /\ poolPc' = "unregister"
  /\ poolClient' = <<c>>
  /\ cliPc' = [cliPc EXCEPT ![c] = "closed"]
  /\ UNCHANGED <<ledgerVars, unitVars, ignored, broken, writeErrors, cliAddr, cliOut, conn,
                 reqPc, reqOut,
                 sweepPc, stale, msgStatus>>

\* case message := <-pool.Broadcast; the sender goes on: a connection's
\* goroutine to its next frame, a request to its response.
StartBroadcast(s) ==
  LET message == s.msg[1]
      targets == IF message.To # ""
                 THEN {c \in ClientIDs : Clients[message.To] = <<c>>}
                 ELSE {c \in ClientIDs : \E a \in Addresses : Clients[a] = <<c>>}
  IN  /\ conn' = [c \in ClientIDs |->
                    IF c \in targets THEN SendMessage(conn, c, message)[c] ELSE conn[c]]
      /\ writeErrors' = LogWriteErrors(targets)
      /\ cliPc' = IF s.from \in ClientIDs THEN [cliPc EXCEPT ![s.from] = "read"] ELSE cliPc
      /\ cliOut' = IF s.from \in ClientIDs THEN [cliOut EXCEPT ![s.from] = <<>>] ELSE cliOut
      /\ reqPc' = IF s.from \in Requests THEN [reqPc EXCEPT ![s.from] = "idle"] ELSE reqPc
      /\ reqOut' = IF s.from \in Requests THEN [reqOut EXCEPT ![s.from] = <<>>] ELSE reqOut
      /\ UNCHANGED <<ledgerVars, unitVars, ignored, broken, Clients, poolPc, poolClient, cliAddr,
                     sweepPc, stale,
                     msgStatus>>

\* Pool.Start after its own send of the presence update: in the Register case
\* the welcome message and the goroutine that marks pending messages, then
\* the select again.
StartAfterPresence ==
  /\ conn' = IF poolPc = "register"
             THEN SendMessage(conn, poolClient[1], Message("welcome", "", "Welcome to Piko!"))
             ELSE conn
  /\ writeErrors' = IF poolPc = "register" THEN LogWriteErrors({poolClient[1]})
                     ELSE writeErrors
  /\ sweepPc' = IF poolPc = "register"
                THEN [sweepPc EXCEPT ![poolClient[1]] = "fetch"]
                ELSE sweepPc
  /\ poolPc' = "select"
  /\ poolClient' = <<>>
  /\ UNCHANGED <<ledgerVars, unitVars, ignored, broken, Clients, cliPc, cliAddr, cliOut, reqPc,
                 reqOut,
                 stale,
                 msgStatus>>

\* One step of the goroutine running Pool.Start: a send on one of the pool's
\* channels completes.
Start ==
  \E s \in ReadySends :
    CASE s.from = "pool" -> StartAfterPresence
      [] s.from # "pool" /\ s.ch = "Register" -> StartRegister(s.from)
      [] s.from # "pool" /\ s.ch = "Unregister" -> StartUnregister(s.from)
      [] OTHER -> StartBroadcast(s)

\* WebSocketHandler / SecretChatWebSocketHandler: a connection is accepted for
\* address (or room) a and its client is sent on Register.
WebSocketHandler(c, a) ==
  /\ cliPc[c] = "new"
  /\ cliPc' = [cliPc EXCEPT ![c] = "register"]
  /\ cliAddr' = [cliAddr EXCEPT ![c] = a]
  /\ UNCHANGED <<ledgerVars, unitVars, ignored, broken, writeErrors, Clients, poolPc,
                 poolClient, cliOut,
                 conn, reqPc, reqOut,
                 sweepPc, stale, msgStatus>>

\* Read, a "ping" frame: the pong is written to the connection.
ReadPing(c) ==
  /\ cliPc[c] = "read"
  /\ conn' = SendMessage(conn, c, Message("pong", "", ""))
  /\ writeErrors' = LogWriteErrors({c})
  /\ UNCHANGED <<ledgerVars, unitVars, ignored, broken, Clients, poolPc, poolClient, cliPc,
                 cliAddr,
                 cliOut, reqPc,
                 reqOut, sweepPc, stale, msgStatus>>

\* Read, a "typing" frame with a string "to": the indicator is sent on Broadcast.
ReadTyping(c, to) ==
  /\ cliPc[c] = "read"
  /\ cliPc' = [cliPc EXCEPT ![c] = "broadcast"]
  /\ cliOut' = [cliOut EXCEPT ![c] = <<Message("typing", to, cliAddr[c])>>]
  /\ UNCHANGED <<ledgerVars, unitVars, ignored, broken, writeErrors, Clients, poolPc, poolClient,
                 cliAddr, conn, reqPc, reqOut,
                 sweepPc, stale, msgStatus>>

\* Read that sends the status update although UpdateMessageStatus failed.
ReadStatus_NotifiesOnFailure(c, frame, messageID) ==
  LET status == IF frame = "read" THEN MessageStatusRead ELSE MessageStatusDelivered IN
    /\ cliPc[c] = "read"
    /\ \E updateErr \in BOOLEAN, getErr \in BOOLEAN :
         LET notify == ~getErr /\ messageID \in MessageIDs IN
           /\ msgStatus' = IF updateErr THEN msgStatus
                           ELSE UpdateMessageStatus(messageID, status)
           /\ cliPc' = IF notify THEN [cliPc EXCEPT ![c] = "broadcast"] ELSE cliPc
           /\ cliOut' = IF notify
                        THEN [cliOut EXCEPT ![c] =
                                <<Message("status_update", SenderAddress(messageID),
                                          <<messageID, status, cliAddr[c]>>)>>]
                        ELSE cliOut
    /\ UNCHANGED <<ledgerVars, unitVars, ignored, broken, writeErrors, Clients, poolPc,
                   poolClient,
                   cliAddr, conn,
                   reqPc, reqOut, sweepPc, stale>>

\* Read, a "read" or a "received" frame with a string "message_id": the status
\* is written and, when the message is then found, the sender's status update
\* is sent on Broadcast.
ReadStatus(c, frame, messageID) ==
  LET status == IF frame = "read" THEN MessageStatusRead ELSE MessageStatusDelivered IN
    /\ cliPc[c] = "read"
    /\ \E updateErr \in BOOLEAN, getErr \in BOOLEAN :
         LET notify == ~updateErr /\ ~getErr /\ messageID \in MessageIDs IN
           /\ msgStatus' = IF updateErr THEN msgStatus
                           ELSE UpdateMessageStatus(messageID, status)
           /\ cliPc' = IF notify THEN [cliPc EXCEPT ![c] = "broadcast"] ELSE cliPc
           /\ cliOut' = IF notify
                        THEN [cliOut EXCEPT ![c] =
                                <<Message("status_update", SenderAddress(messageID),
                                          <<messageID, status, cliAddr[c]>>)>>]
                        ELSE cliOut
    /\ UNCHANGED <<ledgerVars, unitVars, ignored, broken, writeErrors, Clients, poolPc,
                   poolClient,
                   cliAddr, conn, reqPc, reqOut,
                   sweepPc, stale>>

\* The frames Read does nothing for: a frame that is not text, a text frame that
\* does not decode, a frame of an unknown type, and a "typing", "read" or
\* "received" frame without its string field.
IgnoredFrames == {"binary", "undecodable", "unknown", "nofield"}

\* Read treating a frame it cannot use as a failed read.
ReadIgnored_Returns(c, frame) ==
  /\ cliPc[c] = "read"
  /\ cliPc' = [cliPc EXCEPT ![c] = "unregister"]
  /\ ignored' = IF frame \in {"undecodable", "unknown"} THEN ignored \cup {c} ELSE ignored
  /\ UNCHANGED <<ledgerVars, unitVars, broken, writeErrors, Clients, poolPc, poolClient,
                 cliAddr, cliOut,
                 conn, reqPc, reqOut, sweepPc, stale, msgStatus>>

\* Read, a frame of IgnoredFrames: an undecodable frame and a frame of an
\* unknown type are logged; the loop goes on to the next ReadMessage.
ReadIgnored(c, frame) ==
  /\ cliPc[c] = "read"
  /\ ignored' = IF frame \in {"undecodable", "unknown"} THEN ignored \cup {c} ELSE ignored
  /\ UNCHANGED <<ledgerVars, unitVars, broken, writeErrors, Clients, poolPc, poolClient, cliPc,
                 cliAddr,
                 cliOut, conn, reqPc, reqOut, sweepPc, stale, msgStatus>>

\* Read, ReadMessage fails: Read returns and its deferred function sends the
\* client on Unregister.
ReadError(c) ==
  /\ cliPc[c] = "read"
  /\ cliPc' = [cliPc EXCEPT ![c] = "unregister"]
  /\ UNCHANGED <<ledgerVars, unitVars, ignored, broken, writeErrors, Clients, poolPc, poolClient,
                 cliAddr, cliOut, conn, reqPc,
                 reqOut, sweepPc, stale, msgStatus>>

\* SendSecretChatMessage (and notifyGroupMessage, for a member): the request
\* sends a message for address (or room) a on Broadcast.
SendSecretChatMessage(r, a) ==
  /\ reqPc[r] = "idle"
  /\ reqPc' = [reqPc EXCEPT ![r] = "broadcast"]
  /\ reqOut' = [reqOut EXCEPT ![r] = <<Message("secret_chat_message", a, r)>>]
  /\ UNCHANGED <<ledgerVars, unitVars, ignored, broken, writeErrors, Clients, poolPc,
                 poolClient, cliPc,
                 cliAddr, cliOut, conn,
                 sweepPc, stale, msgStatus>>

\* GetMessage by userAddress: the recipient's fetch of a message that is not
\* read marks it read.
GetMessage(userAddress, messageID) ==
  /\ \E updateErr \in BOOLEAN :
       msgStatus' =
         IF /\ RecipientAddress(messageID) = userAddress
            /\ msgStatus[messageID] # MessageStatusRead
            /\ ~updateErr
         THEN UpdateMessageStatus(messageID, MessageStatusRead)
         ELSE msgStatus
  /\ UNCHANGED <<ledgerVars, unitVars, ignored, broken, writeErrors, Clients, poolPc,
                 poolClient, cliPc,
                 cliAddr, cliOut, conn,
                 reqPc, reqOut, sweepPc, stale>>

\* The goroutine spawned at the registration of connection w, or the GetInbox
\* request w of address a: GetMessagesByRecipient, of which the pending
\* messages are left to mark.
FetchPending(w, a) ==
  /\ IF w \in ClientIDs THEN sweepPc[w] = "fetch" /\ a = cliAddr[w] ELSE reqPc[w] = "idle"
  /\ \E err \in BOOLEAN :
       LET pending == IF err THEN {}
                      ELSE {m \in MessageIDs : /\ RecipientAddress(m) = a
                                               /\ msgStatus[m] = MessageStatusPending}
       IN  /\ stale' = [stale EXCEPT ![w] = pending]
           /\ sweepPc' = IF w \in ClientIDs
                         THEN [sweepPc EXCEPT ![w] = IF pending = {} THEN "off" ELSE "update"]
                         ELSE sweepPc
           /\ reqPc' = IF w \in Requests
                       THEN [reqPc EXCEPT ![w] = IF pending = {} THEN "idle" ELSE "inbox"]
                       ELSE reqPc
  /\ UNCHANGED <<ledgerVars, unitVars, ignored, broken, writeErrors, Clients, poolPc,
                 poolClient, cliPc,
                 cliAddr, cliOut, conn,
                 reqOut, msgStatus>>

\* One iteration of the loop over the fetched messages: a message that was
\* pending is marked delivered; the goroutine spawned at a registration then
\* writes the status update to the sender's connection.
MarkDelivered(w) ==
  /\ IF w \in ClientIDs THEN sweepPc[w] = "update" ELSE reqPc[w] = "inbox"
  /\ \E m \in stale[w], err \in BOOLEAN :
       /\ msgStatus' = IF err THEN msgStatus
                       ELSE UpdateMessageStatus(m, MessageStatusDelivered)
       /\ conn' = IF w \in ClientIDs /\ ~err /\ Clients[SenderAddress(m)] # <<>>
                  THEN SendMessage(conn, Clients[SenderAddress(m)][1],
                                   Message("status_update", "",
                                           <<m, MessageStatusDelivered, cliAddr[w]>>))
                  ELSE conn
       /\ writeErrors' = IF w \in ClientIDs /\ ~err /\ Clients[SenderAddress(m)] # <<>>
                         THEN LogWriteErrors({Clients[SenderAddress(m)][1]})
                         ELSE writeErrors
       /\ stale' = [stale EXCEPT ![w] = @ \ {m}]
       /\ sweepPc' = IF w \in ClientIDs /\ stale[w] = {m}
                     THEN [sweepPc EXCEPT ![w] = "off"] ELSE sweepPc
       /\ reqPc' = IF w \in Requests /\ stale[w] = {m}
                   THEN [reqPc EXCEPT ![w] = "idle"] ELSE reqPc
  /\ UNCHANGED <<ledgerVars, unitVars, ignored, broken, Clients, poolPc, poolClient, cliPc,
                 cliAddr,
                 cliOut, reqOut>>

\* NotifyNewMessage(pool, message): a connected recipient is notified, the
\* message is marked delivered and a connected sender is told.
NotifyNewMessage(m) ==
  /\ \E err \in BOOLEAN :
       LET ok == Clients[RecipientAddress(m)] # <<>>
           senderOnline == Clients[SenderAddress(m)] # <<>>
           notified == IF ok
                       THEN SendMessage(conn, Clients[RecipientAddress(m)][1],
                                        Message("new_message", "", <<m, SenderAddress(m)>>))
                       ELSE conn
       IN  /\ msgStatus' = IF ok /\ ~err
                           THEN UpdateMessageStatus(m, MessageStatusDelivered)
                           ELSE msgStatus
           /\ conn' = IF ok /\ ~err /\ senderOnline
                      THEN SendMessage(notified, Clients[SenderAddress(m)][1],
                                       Message("status_update", "",
                                               <<m, MessageStatusDelivered,
                                                 RecipientAddress(m)>>))
                      ELSE notified
           /\ writeErrors' =
                LogWriteErrors({c \in ClientIDs :
                                  \/ ok /\ Clients[RecipientAddress(m)] = <<c>>
                                  \/ ok /\ ~err /\ Clients[SenderAddress(m)] = <<c>>})
  /\ UNCHANGED <<ledgerVars, unitVars, ignored, broken, Clients, poolPc, poolClient, cliPc,
                 cliAddr,
                 cliOut, reqPc,
                 reqOut, sweepPc, stale>>

\* The transport of a connection breaks: from now on WriteJSON on it fails.
ConnBreak(c) ==
  /\ cliPc[c] \in {"register", "read", "broadcast", "unregister"}
  /\ c \notin broken
  /\ broken' = broken \cup {c}
  /\ UNCHANGED <<ledgerVars, unitVars, ignored, writeErrors, Clients, poolPc, poolClient,
                 cliPc, cliAddr,
                 cliOut,
                 conn, reqPc, reqOut, sweepPc, stale, msgStatus>>

PoolNext ==
  \/ Start
  \/ \E c \in ClientIDs, a \in Addresses : WebSocketHandler(c, a)
  \/ \E c \in ClientIDs : ReadPing(c)
  \/ \E c \in ClientIDs, to \in Addresses \cup {""} : ReadTyping(c, to)
  \/ \E c \in ClientIDs, frame \in {"read", "received"}, messageID \in MessageIDs \cup {"m0"} :
       ReadStatus(c, frame, messageID)
  \/ \E c \in ClientIDs, frame \in IgnoredFrames : ReadIgnored(c, frame)
  \/ \E c \in ClientIDs : ReadError(c)
  \/ \E r \in Requests, a \in Addresses : SendSecretChatMessage(r, a)
  \/ \E a \in Addresses, m \in MessageIDs : GetMessage(a, m)
  \/ \E w \in Requests \cup ClientIDs, a \in Addresses : FetchPending(w, a)
  \/ \E w \in Requests \cup ClientIDs : MarkDelivered(w)
  \/ \E m \in MessageIDs : NotifyNewMessage(m)
  \/ \E c \in ClientIDs : ConnBreak(c)

(***************************************************************************)
(* The mempool on the heap: Mempool.Transactions is a slice, a window      *)
(* (offset, length) on a backing array that other slices may share.  The   *)
(* value of a slice is what is in its window.                              *)
(***************************************************************************)
NilSlice == [arr |-> 0, off |-> 0, len |-> 0]
NilEntry == [Type |-> "", DataID |-> "", Timestamp |-> 0, ptr |-> 0]

cap(a, s) == IF s.arr = 0 THEN 0 ELSE Len(a[s.arr]) - s.off

\* The elements of slice s when the heap is a.
View(a, s) == IF s.arr = 0 THEN <<>> ELSE SubSeq(a[s.arr], s.off + 1, s.off + s.len)

\* make([]*MempoolTransaction, n): a new array of n nil pointers.
make(n) == [i \in 1..n |-> NilEntry]

UnitInit ==
  /\ arrays = <<make(0)>>
  /\ mTransactions = [arr |-> 1, off |-> 0, len |-> 0]
  /\ got = <<>>
  /\ call = <<>>
  /\ result = <<>>

\* Mempool.AddTransaction on the heap: a full mempool is resliced from 1, and
\* append writes in place when the array has room and otherwise allocates a
\* large enough array and copies.
MempoolAddTransaction(txType, dataID) ==
  LET tx == [Type |-> txType, DataID |-> dataID, Timestamp |-> now, ptr |-> nAdds + 1]
      full == mTransactions.len >= Capacity
      s == IF full
           THEN [mTransactions EXCEPT !.off = @ + 1, !.len = @ - 1]
           ELSE mTransactions
  IN  /\ nAdds < MaxAdds
      /\ Len(arrays) < MaxArrays
      /\ nAdds' = nAdds + 1
      /\ IF full /\ mTransactions.len = 0
         THEN /\ lastAdd' = "panic"
              /\ UNCHANGED <<arrays, mTransactions, Transactions>>
         ELSE /\ lastAdd' = "ok"
              /\ Transactions' = AddTransaction(Transactions, Capacity, tx)
              /\ IF s.len < cap(arrays, s)
                 THEN /\ arrays' = [arrays EXCEPT ![s.arr][s.off + s.len + 1] = tx]
                      /\ mTransactions' = [s EXCEPT !.len = @ + 1]
                 ELSE \E spare \in 0..1 :
                        /\ arrays' = Append(arrays, View(arrays, s) \o <<tx>> \o make(spare))
                        /\ mTransactions' =
                             [arr |-> Len(arrays) + 1, off |-> 0, len |-> s.len + 1]
      /\ WithMempoolLock
      /\ UNCHANGED <<poolVars, call, result, got, now, Capacity, LatestBlock, sealPc, snap,
                     block, idx, blocks,
                     transactions, msgBlockID, chMsgBlockID, added, tick, initResult>>

\* GetTransactions that hands out the mempool's own slice and leaves the
\* mempool without it.
MempoolGetTransactions_Drains ==
  /\ Len(arrays) < MaxArrays
  /\ IF mTransactions.len = 0
     THEN /\ got' = <<[transactions |-> NilSlice, err |-> TRUE]>>
          /\ UNCHANGED <<arrays, mTransactions, Transactions>>
     ELSE /\ got' = <<[transactions |-> mTransactions, err |-> FALSE]>>
          /\ mTransactions' = NilSlice
          /\ Transactions' = <<>>
          /\ UNCHANGED arrays
  /\ WithMempoolLock
  /\ UNCHANGED <<poolVars, call, result, now, Capacity, LatestBlock, sealPc, snap, block, idx,
                 blocks, transactions, msgBlockID, chMsgBlockID, nAdds, lastAdd, added, tick,
                 initResult>>

\* Mempool.GetTransactions on the heap: ErrEmptyMempool for an empty mempool,
\* otherwise a new array of the same length into which the elements are copied.
MempoolGetTransactions ==
  /\ Len(arrays) < MaxArrays
  /\ IF mTransactions.len = 0
     THEN /\ got' = <<[transactions |-> NilSlice, err |-> TRUE]>>
          /\ UNCHANGED arrays
     ELSE /\ arrays' = Append(arrays, [i \in 1..mTransactions.len |->
                                         View(arrays, mTransactions)[i]])
          /\ got' = <<[transactions |->
                         [arr |-> Len(arrays) + 1, off |-> 0, len |-> mTransactions.len],
                       err |-> FALSE]>>
  /\ WithMempoolLock
  /\ UNCHANGED <<poolVars, call, result, mTransactions, now, Capacity, Transactions,
                 LatestBlock, sealPc,
                 snap, block, idx, blocks, transactions, msgBlockID, chMsgBlockID, nAdds,
                 lastAdd, added, tick, initResult>>

\* Mempool.Clear on the heap: Transactions becomes a new, empty slice.
MempoolClear ==
  /\ Len(arrays) < MaxArrays
  /\ arrays' = Append(arrays, make(0))
  /\ mTransactions' = [arr |-> Len(arrays) + 1, off |-> 0, len |-> 0]
  /\ Transactions' = Clear
  /\ WithMempoolLock
  /\ UNCHANGED <<poolVars, call, result, got, now, Capacity, LatestBlock, sealPc, snap, block,
                 idx, blocks,
                 transactions, msgBlockID, chMsgBlockID, nAdds, lastAdd, added, tick,
                 initResult>>

MempoolNext ==
  \/ \E r \in Refs : MempoolAddTransaction(r[1], r[2])
  \/ MempoolGetTransactions
  \/ MempoolClear
  \/ ClockAdvance

(***************************************************************************)
(* The hash functions called on their own: one call per behaviour, on      *)
(* arguments drawn from the sets below.                                    *)
(***************************************************************************)
\* Mempool entries that differ from the first in one field each, or only in
\* which allocation they are.
BatchEntries ==
  {[Type |-> TransactionTypeMessage, DataID |-> "m1", Timestamp |-> 0, ptr |-> 1],
   [Type |-> TransactionTypeChannelMessage, DataID |-> "m1", Timestamp |-> 0, ptr |-> 1],
   [Type |-> TransactionTypeMessage, DataID |-> "c1", Timestamp |-> 0, ptr |-> 1],
   [Type |-> TransactionTypeMessage, DataID |-> "m1", Timestamp |-> 1, ptr |-> 1],
   [Type |-> TransactionTypeMessage, DataID |-> "m1", Timestamp |-> 0, ptr |-> 2]}

Batches == UNION {[1..n -> BatchEntries] : n \in 0..MaxBatch}

\* Ids of blocks a new block can be built on.
PreviousHashes == {calculateBlockHash(<<>>, t, GenesisRoot, 0) : t \in 0..MaxTime}

CallCalculateNonce ==
  /\ call = <<>>
  /\ \E previousHash \in PreviousHashes, timestamp \in 0..MaxTime, txs \in Batches :
       LET merkleRoot == calculateMerkleRoot(txs)
       IN  /\ call' = <<"calculateNonce", <<previousHash, timestamp, merkleRoot>>>>
           /\ result' = calculateNonce(previousHash, timestamp, merkleRoot)
  /\ UNCHANGED <<ledgerVars, poolVars, arrays, mTransactions, got>>

\* createBlock's construction of the block from the head, the snapshot and
\* the clock.
CallNewBlock ==
  /\ call = <<>>
  /\ \E t0 \in 0..MaxTime, txs \in Batches \ {<<>>}, t \in 0..MaxTime :
       LET latestBlock == GenesisBlock(t0, t0)
       IN  /\ call' = <<"NewBlock", <<latestBlock, txs, t>>>>
           /\ result' = NewBlock(latestBlock, txs, t)
  /\ UNCHANGED <<ledgerVars, poolVars, arrays, mTransactions, got>>

\* calculateMerkleRoot called on a batch and on a batch that is the same, has
\* another entry at one position or has one more entry at its end.
CallCalculateMerkleRoot ==
  /\ call = <<>>
  /\ \E txs \in Batches, i \in 0..(MaxBatch + 1), e \in BatchEntries :
       /\ i <= Len(txs) + 1
       /\ LET other == CASE i = 0 -> txs
                         [] i = Len(txs) + 1 -> Append(txs, e)
                         [] OTHER -> [txs EXCEPT ![i] = e]
          IN  /\ call' = <<"calculateMerkleRoot", <<txs, other>>>>
              /\ result' = <<calculateMerkleRoot(txs), calculateMerkleRoot(other)>>
  /\ UNCHANGED <<ledgerVars, poolVars, arrays, mTransactions, got>>

HashNext ==
  \/ CallCalculateNonce
  \/ CallNewBlock
  \/ CallCalculateMerkleRoot

(***************************************************************************)
(* Specifications: the ledger, the pool, and the pool with its goroutines  *)
(* scheduled whenever they can take a step.                                *)
(***************************************************************************)
Init == LedgerInit /\ PoolInit /\ UnitInit
Next == LedgerNext
Spec == Init /\ [][Next]_vars

\* A step of the goroutine startBlockCreation runs.
SealStep ==
  \/ SealSkip
  \/ SealBegin
  \/ SealPersistBlock
  \/ SealPersistBlockFail
  \/ SealEntry
  \/ SealEntryTxFail
  \/ SealEntryUpdateFail
  \/ SealSwapHead
  \/ SealClear

\* The goroutine startBlockCreation has no step to take that changes anything:
\* it has not been started, or it waits with the mempool empty after a
\* skipped tick.
SealIdle ==
  \/ sealPc = "off"
  \/ sealPc = "wait" /\ Transactions = <<>> /\ tick = [NoTick EXCEPT !.outcome = "skipped"]

\* The ledger with its ticker: the goroutine of the sealing cycle keeps
\* running (weak fairness of SealStep, whose enabling condition is ~SealIdle),
\* and the block insert does not fail for ever.
FairSpec ==
  /\ Init
  /\ [][Next]_vars
  /\ ([]<>SealIdle \/ []<><<SealStep>>_vars)
  /\ SF_vars(SealPersistBlock)

PoolSpec == Init /\ [][PoolNext]_vars

\* The ledger and the pool run in goroutines of their own and call nothing of
\* each other: the ledger runs while the pool is as constructed, and the pool
\* while the ledger is.
ApartNext ==
  \/ PoolInit /\ LedgerNext
  \/ LedgerInit /\ PoolNext

ApartSpec == Init /\ [][ApartNext]_vars

MempoolSpec == Init /\ [][MempoolNext]_vars

HashSpec == Init /\ [][HashNext]_vars

FairPoolSpec ==
  /\ Init
  /\ [][PoolNext]_vars
  /\ WF_vars(Start)
  /\ \A w \in Requests \cup ClientIDs : WF_vars(MarkDelivered(w))
  /\ \A c \in ClientIDs : WF_vars(\E a \in Addresses : FetchPending(c, a))

(***************************************************************************)
(* Properties of the ledger.                                               *)
(***************************************************************************)
BlockAtHeight(h) == {i \in 1..Len(blocks) : blocks[i].Height = h}

\* C1: every persisted block except genesis has previous-id equal to the id
\* of the persisted block at height - 1, and the heights of the persisted
\* blocks are 0, 1, 2, ... without a gap and without a repetition.
C1_ChainInvariant ==
  /\ \A h \in 0..(Len(blocks) - 1) : Cardinality(BlockAtHeight(h)) = 1
  /\ \A i \in 1..Len(blocks) : blocks[i].Height \in 0..(Len(blocks) - 1)
  /\ \A i \in 1..Len(blocks) :
       blocks[i].Height > 0 =>
         \E j \in BlockAtHeight(blocks[i].Height - 1) :
           blocks[i].PreviousHash = <<blocks[j].ID>>

\* A chain of a genesis block and two sealed blocks has been persisted.
C1_Witness == Len(blocks) >= 3

\* C2: the id of every persisted block is the block hash of the previous id,
\* timestamp, merkle root and nonce recorded for that block.
C2_BlockIdIsHashOfRow ==
  \A i \in 1..Len(blocks) :
    blocks[i].ID = calculateBlockHash(blocks[i].PreviousHash, blocks[i].Timestamp,
                                      blocks[i].MerkleRoot, blocks[i].Nonce)

\* C3: an entry that Clear removes from the mempool was part of the snapshot
\* of the sealing cycle that clears it.
C3_ClearedEntriesWereSnapshot ==
  [][(sealPc = "clear" /\ sealPc' = "wait") =>
       \A i \in 1..Len(Transactions) :
         \E j \in 1..Len(snap) : snap[j].ptr = Transactions[i].ptr]_vars

\* C6: while the process runs, a block id that has been set on a message or a
\* channel message is never cleared and never replaced by another block id.
C6_BlockIdSetOnce ==
  [][sealPc' # "off" =>
       /\ \A m \in MessageIDs : msgBlockID[m] # <<>> => msgBlockID'[m] = msgBlockID[m]
       /\ \A m \in ChannelMessageIDs :
            chMsgBlockID[m] # <<>> => chMsgBlockID'[m] = chMsgBlockID[m]]_vars

LastN(s, n) == SubSeq(s, Len(s) - n + 1, Len(s))

C9_AddAlwaysSucceeds ==
  [][nAdds' = nAdds + 1 =>
       /\ lastAdd' = "ok"
       /\ Transactions' # <<>>
       /\ Transactions'[Len(Transactions')].ptr = nAdds']_vars

\* What the step that ends a tick which sealed `snap0` on top of `head0` with no
\* failure and no concurrent add must leave behind.
SealedCleanly(t) ==
  LET b == blocks'[Len(blocks')] IN
    /\ Len(blocks') = t.nBlocks0 + 1
    /\ b.Height = t.head0[1].Height + 1
    /\ b.PreviousHash = <<t.head0[1].ID>>
    /\ b.MerkleRoot = calculateMerkleRoot(t.snap0)
    /\ Len(transactions') = t.nTx0 + Len(t.snap0)
    /\ \A i \in 1..Len(t.snap0) :
         /\ transactions'[t.nTx0 + i].BlockID = b.ID
         /\ transactions'[t.nTx0 + i].Type = t.snap0[i].Type
         /\ transactions'[t.nTx0 + i].DataID = t.snap0[i].DataID
    /\ \A m \in MessageIDs :
         msgBlockID'[m] =
           IF \E i \in 1..Len(t.snap0) :
                t.snap0[i].Type = TransactionTypeMessage /\ t.snap0[i].DataID = m
           THEN <<b.ID>> ELSE t.msg0[m]
    /\ \A m \in ChannelMessageIDs :
         chMsgBlockID'[m] =
           IF \E i \in 1..Len(t.snap0) :
                t.snap0[i].Type = TransactionTypeChannelMessage /\ t.snap0[i].DataID = m
           THEN <<b.ID>> ELSE t.ch0[m]
    /\ LatestBlock' # <<>>
    /\ LatestBlock'[1].ID = b.ID
    /\ LatestBlock'[1].Height = b.Height
    /\ Transactions' = <<>>

\* C10: a sealing tick over n >= 1 entries in which every persistence call
\* succeeds and no entry is added persists one block on top of the old head,
\* one transaction per snapshot entry, sets the block id of the referenced
\* messages and channel messages only, and ends with head = the new block
\* and an empty mempool.
C10_CleanSeal ==
  [][(sealPc = "clear" /\ sealPc' = "wait" /\ ~tick.failures /\ ~tick.adds) =>
       SealedCleanly(tick)]_vars

\* A tick has just sealed two entries with no failure and no concurrent add.
C10_Witness ==
  /\ tick.outcome = "sealed"
  /\ ~tick.failures
  /\ ~tick.adds
  /\ Len(transactions) >= tick.nTx0 + 2
  /\ Transactions = <<>>
  /\ sealPc = "wait"

\* C11: the step in which persisting the new block fails ends the tick with
\* the mempool, the head, the tables and the back-references as the tick
\* found them (the mempool apart from entries added meanwhile), and the next
\* tick takes everything that is buffered as its snapshot.
C11_BlockFailureChangesNothing ==
  [][/\ (sealPc = "persist" /\ sealPc' = "wait") =>
          /\ Transactions' = Transactions
          /\ ~tick.adds => Transactions' = tick.snap0
          /\ LatestBlock' = tick.head0
          /\ blocks' = blocks
          /\ Len(blocks') = tick.nBlocks0
          /\ transactions' = transactions
          /\ Len(transactions') = tick.nTx0
          /\ msgBlockID' = tick.msg0
          /\ chMsgBlockID' = tick.ch0
     /\ (sealPc = "wait" /\ sealPc' = "persist") =>
          /\ snap' = Transactions
          /\ Transactions' = Transactions]_vars

\* A tick has just ended on a failed block insert, with its entries buffered.
C11_Witness ==
  /\ tick.outcome = "failed"
  /\ sealPc = "wait"
  /\ Transactions # <<>>
  /\ blocks # <<>>

\* The positions 1..n outside `failed`, in order.
KeptPositions(n, failed) == SelectSeq([i \in 1..n |-> i], LAMBDA i : i \notin failed)

\* C12: a failed transaction insert or back-fill of one entry does not end the
\* tick: the loop goes on to the next entry, and the tick ends with a
\* transaction for every entry whose insert did not fail, in snapshot order,
\* the back-reference of every such message or channel message whose
\* back-fill did not fail, the head swapped to the new block and the
\* mempool empty.
C12_EntryFailureDoesNotAbort ==
  [][/\ (sealPc = "txs" /\ idx <= Len(snap) /\ idx' # idx /\ sealPc' # "off") =>
          /\ sealPc' = "txs"
          /\ idx' = idx + 1
          /\ snap' = snap
          /\ block' = block
          /\ Transactions' = Transactions
     /\ (sealPc = "clear" /\ sealPc' = "wait") =>
          LET b == blocks'[Len(blocks')]
              kept == KeptPositions(Len(tick.snap0), tick.failed)
              filled(type, m) ==
                \E k \in 1..Len(kept) :
                  /\ kept[k] \notin tick.unfilled
                  /\ tick.snap0[kept[k]].Type = type
                  /\ tick.snap0[kept[k]].DataID = m
          IN  /\ Len(blocks') = tick.nBlocks0 + 1
              /\ LatestBlock' # <<>>
              /\ LatestBlock'[1].ID = b.ID
              /\ Transactions' = <<>>
              /\ Len(transactions') = tick.nTx0 + Len(kept)
              /\ \A k \in 1..Len(kept) :
                   /\ transactions'[tick.nTx0 + k].BlockID = b.ID
                   /\ transactions'[tick.nTx0 + k].Type = tick.snap0[kept[k]].Type
                   /\ transactions'[tick.nTx0 + k].DataID = tick.snap0[kept[k]].DataID
              /\ \A m \in MessageIDs :
                   msgBlockID'[m] = IF filled(TransactionTypeMessage, m)
                                    THEN <<b.ID>> ELSE tick.msg0[m]
              /\ \A m \in ChannelMessageIDs :
                   chMsgBlockID'[m] = IF filled(TransactionTypeChannelMessage, m)
                                      THEN <<b.ID>> ELSE tick.ch0[m]]_vars

\* A tick has just sealed a batch in which a persistence call failed for one
\* entry and a transaction was persisted for another.
C12_Witness ==
  /\ tick.outcome = "sealed"
  /\ tick.failures
  /\ sealPc = "wait"
  /\ Transactions = <<>>
  /\ Len(transactions) > tick.nTx0

\* C13: while the mempool is empty no step of the sealing cycle changes the
\* head, persists a block or a transaction, back-fills an entity, starts
\* sealing or records a failed tick.
C13_EmptyTickChangesNothing ==
  [][(sealPc = "wait" /\ Transactions = <<>> /\ sealPc' # "off") =>
       /\ sealPc' = "wait"
       /\ UNCHANGED <<LatestBlock, blocks, transactions, msgBlockID, chMsgBlockID>>
       /\ tick'.outcome = "failed" => tick.outcome = "failed"]_vars

\* A tick has just been skipped on an empty mempool, after a block was sealed.
C13_Witness ==
  /\ tick.outcome = "skipped"
  /\ sealPc = "wait"
  /\ Transactions = <<>>
  /\ Len(blocks) >= 2

(***************************************************************************)
(* Properties of the pool.                                                 *)
(***************************************************************************)
Rank(status) ==
  CASE status = MessageStatusPending -> 0
    [] status = MessageStatusDelivered -> 1
    [] status = MessageStatusRead -> 2

\* C4: the persisted status of a message never moves to an earlier status in
\* the order pending < delivered < read.
C4_StatusMonotonic ==
  [][\A m \in MessageIDs : Rank(msgStatus'[m]) >= Rank(msgStatus[m])]_vars

\* C5: a client that the pool has received on Register eventually gets the
\* welcome message and the presence-online notification of its address.
C5_RegisterWelcomes ==
  \A c \in ClientIDs :
    (poolPc = "register" /\ poolClient = <<c>>) ~>
      /\ Message("welcome", "", "Welcome to Piko!") \in conn[c]
      /\ Message("presence", "", <<cliAddr[c], "online">>) \in conn[c]

\* C7: a message that a request broadcasts to a room reaches every connection
\* of that room that is registered and stays connected.
C7_RoomBroadcastReachesParticipants ==
  \A r \in Requests, c \in ClientIDs, a \in Addresses :
    (/\ reqPc[r] = "broadcast"
     /\ reqOut[r] = <<Message("secret_chat_message", a, r)>>
     /\ cliPc[c] = "read"
     /\ cliAddr[c] = a) ~>
      \/ Message("secret_chat_message", a, r) \in conn[c]
      \/ cliPc[c] # "read"

\* The registry holds client c under its address.
Registered(c) == cliAddr[c] \in Addresses /\ Clients[cliAddr[c]] = <<c>>

\* C14: when a client has been received on Register, every message addressed
\* to its address that is pending is eventually marked delivered.
C14_SweepDelivers ==
  \A c \in ClientIDs, m \in MessageIDs :
    (/\ poolPc = "register"
     /\ poolClient = <<c>>
     /\ RecipientAddress(m) = cliAddr[c]
     /\ msgStatus[m] = MessageStatusPending) ~>
      msgStatus[m] # MessageStatusPending

\* C15: a message sent on Broadcast with To set reaches the client that is
\* registered under that address, as long as it stays registered.
C15_TargetedBroadcastDelivered ==
  \A w \in ClientIDs, c \in ClientIDs, to \in Addresses, from \in Addresses :
    (/\ cliPc[w] = "broadcast"
     /\ cliOut[w] = <<Message("typing", to, from)>>
     /\ Clients[to] = <<c>>) ~>
      \/ Message("typing", to, from) \in conn[c]
      \/ Clients[to] # <<c>>

StatusOf(frame) == IF frame = "read" THEN MessageStatusRead ELSE MessageStatusDelivered

\* C16: the read loop sends a status update for a "read" or "received" frame
\* only in a run that wrote the frame's status for an existing message, and
\* sends it to the stored sender of that message; a run that did not write
\* the status sends nothing.
C16_StatusWrittenBeforeNotification ==
  [][\A c \in ClientIDs, frame \in {"read", "received"}, id \in MessageIDs \cup {"m0"} :
       ReadStatus(c, frame, id) =>
         /\ cliPc'[c] = "broadcast" =>
              /\ id \in MessageIDs
              /\ msgStatus'[id] = StatusOf(frame)
              /\ cliOut'[c] = <<Message("status_update", SenderAddress(id),
                                        <<id, StatusOf(frame), cliAddr[c]>>)>>
         /\ (id \in MessageIDs /\ msgStatus'[id] # StatusOf(frame)) =>
              /\ cliPc'[c] = "read"
              /\ cliOut'[c] = cliOut[c]]_vars

\* A read loop has written the status read of m1 and is sending the status
\* update to the sender of m1.
C16_Witness ==
  \E c \in ClientIDs :
    /\ cliPc[c] = "broadcast"
    /\ cliOut[c] = <<Message("status_update", SenderAddress("m1"),
                             <<"m1", MessageStatusRead, cliAddr[c]>>)>>
    /\ msgStatus["m1"] = MessageStatusRead

\* C17: a client whose read loop ended on a read error is eventually removed
\* from the registry and its connection closed.
C17_ReadErrorUnregisters ==
  \A c \in ClientIDs :
    (cliPc[c] = "unregister") ~> (cliPc[c] = "closed" /\ ~Registered(c))

\* C18: a client for which a write error occurred while it was in its read
\* loop eventually leaves the loop and is unregistered.
C18_WriteErrorUnregisters ==
  \A c \in ClientIDs :
    (c \in writeErrors /\ cliPc[c] = "read") ~> (cliPc[c] \in {"unregister", "closed"})

\* C19: a message sent on Broadcast to all clients reaches a registered client
\* although the connection of another client fails its writes.
C19_WriteFailureIsolated ==
  \A w \in ClientIDs, c \in ClientIDs, d \in ClientIDs, from \in Addresses :
    (/\ cliPc[w] = "broadcast"
     /\ cliOut[w] = <<Message("typing", "", from)>>
     /\ c # d
     /\ c \in broken
     /\ Registered(d)) ~>
      \/ Message("typing", "", from) \in conn[d]
      \/ ~Registered(d)

\* C20: a client sent on Unregister is eventually removed from the registry.
C20_UnregisterRemoves ==
  \A c \in ClientIDs :
    (cliPc[c] = "unregister" /\ Registered(c)) ~>
      (cliAddr[c] \in Addresses /\ Clients[cliAddr[c]] = <<>>)

\* C21: a frame Read cannot use (not text, undecodable, of an unknown type, or
\* lacking its string field) changes neither the registry, nor a message's
\* status, nor the ledger; nothing is written to a connection or sent on
\* Broadcast, and the connection's goroutine stays in its read loop.
C21_IgnoredFrameChangesNothing ==
  [][\A c \in ClientIDs, frame \in IgnoredFrames :
       ReadIgnored(c, frame) =>
         /\ UNCHANGED <<ledgerVars, unitVars, Clients, msgStatus, conn, cliOut, reqOut, broken>>
         /\ cliPc[c] = "read" /\ cliPc' = cliPc
         /\ poolPc' = poolPc]_vars

C21_Witness ==
  \E c \in ClientIDs : c \in ignored /\ cliPc[c] = "read" /\ Registered(c)

\* C22: a "typing" frame of client c for identity r is sent on Broadcast as one
\* typing message with To = r and from = c's address, the pool processes it,
\* writing it to r's connection when r is registered, and c's goroutine goes back
\* to its read loop.
C22_TypingForwarded ==
  \A c \in ClientIDs, r \in Addresses :
    (cliPc[c] = "broadcast" /\ cliOut[c] = <<Message("typing", r, cliAddr[c])>>)
      ~> (/\ cliPc[c] = "read"
          /\ \A d \in ClientIDs :
               Message("typing", r, cliAddr[c]) \in conn[d] => cliAddr[d] = r)

\* C23: notifications for one client are written in the order they were issued:
\* while a notification a handler has sent on Broadcast for a registered client
\* is not yet written to it, no new_message or status_update issued later by a
\* direct send is written to that client's connection.
C23_NotificationsInIssueOrder ==
  [][\A c \in ClientIDs, r \in Requests :
       (/\ reqPc[r] = "broadcast"
        /\ Registered(c)
        /\ reqOut[r][1].To = cliAddr[c]
        /\ reqOut[r][1] \notin conn[c])
         => \A n \in conn'[c] \ conn[c] :
              n = reqOut[r][1] \/ n.Type \notin {"new_message", "status_update"}]_vars

\* C30: whenever the pool goroutine has taken a Register, Unregister or
\* Broadcast event it comes back to its select, and a goroutine that is sending
\* on one of the three channels gets its send accepted.
C30_ActorLoopNeverBlocks ==
  /\ (poolPc # "select") ~> (poolPc = "select")
  /\ \A c \in ClientIDs : (cliPc[c] = "unregister") ~> (cliPc[c] # "unregister")
  /\ \A r \in Requests : (reqPc[r] = "broadcast") ~> (reqPc[r] # "broadcast")

(***************************************************************************)
(* Properties of Initialize and of the pure functions of the ledger.       *)
(***************************************************************************)
\* C24: Initialize on an empty blocks table persists exactly one block, the
\* genesis block (no previous id, height 0, the genesis sentinel as merkle
\* root, nonce 0, id = the block hash of these and the clock), and makes it the
\* head; when a latest block is found the head is that block and nothing is
\* persisted; when the genesis block cannot be persisted Initialize returns an
\* error, the head stays unset and no sealing cycle is started.
C24_InitializeSetsHead ==
  [][/\ (sealPc = "off" /\ sealPc' = "wait" /\ GetLatestBlock = {}) =>
          /\ Len(blocks') = 1
          /\ blocks'[1].PreviousHash = <<>>
          /\ blocks'[1].Height = 0
          /\ blocks'[1].MerkleRoot = GenesisRoot
          /\ blocks'[1].Nonce = 0
          /\ blocks'[1].ID = calculateBlockHash(<<>>, now, GenesisRoot, 0)
          /\ LatestBlock' # <<>>
          /\ LatestBlock'[1].ID = blocks'[1].ID
          /\ LatestBlock'[1].Height = 0
          /\ LatestBlock'[1].PreviousHash = <<>>
          /\ initResult' = "ok"
     /\ (sealPc = "off" /\ sealPc' = "wait" /\ GetLatestBlock # {}) =>
          /\ blocks' = blocks
          /\ \E latestBlock \in GetLatestBlock : LatestBlock' = <<latestBlock>>
     /\ InitializeFail("failed to create genesis block") =>
          /\ blocks' = blocks
          /\ LatestBlock' = <<>>
          /\ sealPc' = "off"]_vars

\* Initialize has minted the genesis block and the sealing cycle waits for its
\* first tick.
C24_Witness ==
  /\ initResult = "ok"
  /\ sealPc = "wait"
  /\ Len(blocks) = 1
  /\ blocks[1].Height = 0
  /\ LatestBlock # <<>>
  /\ LatestBlock[1].ID = blocks[1].ID

\* C25: when loading the latest block fails with an error other than
\* not-found, Initialize returns the error without persisting a block, setting
\* the head or starting the sealing cycle; and whenever the sealing cycle is
\* running the head is set.
C25_InitializeFailsWithoutHead ==
  [][/\ InitializeFail("failed to get latest block") =>
          /\ blocks' = blocks
          /\ LatestBlock' = <<>>
          /\ sealPc' = "off"
          /\ initResult' = "failed to get latest block"
     /\ sealPc' # "off" => LatestBlock' # <<>>]_vars

\* Initialize has failed to load the latest block.
C25_Witness ==
  /\ initResult = "failed to get latest block"
  /\ sealPc = "off"
  /\ LatestBlock = <<>>
  /\ blocks = <<>>

\* C26: GetTransactions returns ErrEmptyMempool exactly when the mempool is
\* empty and otherwise the buffered entries in insertion order; it leaves the
\* mempool as it was, and what it returned is not changed by an AddTransaction
\* or a Clear that comes after.
C26_SnapshotIsACopy ==
  [][/\ MempoolGetTransactions =>
          /\ View(arrays', mTransactions') = View(arrays, mTransactions)
          /\ got'[1].err = (View(arrays, mTransactions) = <<>>)
          /\ View(arrays', got'[1].transactions) = View(arrays, mTransactions)
          /\ \A i, j \in 1..got'[1].transactions.len :
               i < j => View(arrays', got'[1].transactions)[i].ptr
                          < View(arrays', got'[1].transactions)[j].ptr
     /\ (got # <<>> /\ got' = got) =>
          View(arrays', got[1].transactions) = View(arrays, got[1].transactions)
     /\ View(arrays', mTransactions') = Transactions']_vars

\* A snapshot of two entries was returned and the mempool has changed since.
C26_Witness ==
  /\ got # <<>>
  /\ got[1].transactions.len = 2
  /\ View(arrays, mTransactions) # View(arrays, got[1].transactions)

\* The block hash calculateNonce tries for nonce n in the call `c`.
TriedHash(c, n) == calculateBlockHash(<<c[2][1]>>, c[2][2], c[2][3], n)

\* C27: calculateNonce returns the smallest nonce n >= 0 for which the block
\* hash of (previous id, timestamp, merkle root, n) ends in "00", and the id
\* of the block createBlock builds is that hash.
C27_NonceIsSmallestAccepted ==
  /\ (call # <<>> /\ call[1] = "calculateNonce") =>
       /\ result \in Nat
       /\ TriedHash(call, result).low = 0
       /\ \A n \in 0..(result - 1) : TriedHash(call, n).low # 0
  /\ (call # <<>> /\ call[1] = "NewBlock") =>
       LET latestBlock == call[2][1]
           t == call[2][3]
       IN  /\ result.ID.low = 0
           /\ result.ID = calculateBlockHash(<<latestBlock.ID>>, t, result.MerkleRoot,
                                              result.Nonce)
           /\ \A n \in 0..(result.Nonce - 1) :
                calculateBlockHash(<<latestBlock.ID>>, t, result.MerkleRoot, n).low # 0

\* calculateNonce has returned a nonce after rejecting at least sixteen.
C27_Witness ==
  /\ call # <<>>
  /\ call[1] = "calculateNonce"
  /\ result >= 16

\* The (type, data id, timestamp) triples of a batch.
Triples(txs) == [i \in 1..Len(txs) |-> <<txs[i].Type, txs[i].DataID, txs[i].Timestamp>>]

\* The number of fields in which two entries differ.
FieldsApart(a, b) ==
  Cardinality({f \in {"Type", "DataID", "Timestamp"} : a[f] # b[f]})

\* C28: calculateMerkleRoot returns the sentinel of 64 zeros for an empty
\* batch; batches with equal (type, data id, timestamp) triples have equal
\* roots, and two batches of the same length that differ in one field of one
\* entry have different roots.
C28_MerkleRootOfTriples ==
  (call # <<>> /\ call[1] = "calculateMerkleRoot") =>
    LET txs == call[2][1]
        other == call[2][2]
    IN  /\ txs = <<>> => result[1] = ZeroHash
        /\ Triples(txs) = Triples(other) => result[1] = result[2]
        /\ \A i \in 1..Len(txs) :
             (/\ Len(other) = Len(txs)
              /\ \A j \in 1..Len(txs) : j # i => Triples(other)[j] = Triples(txs)[j]
              /\ FieldsApart(txs[i], other[i]) = 1)
             => result[1] # result[2]

\* calculateMerkleRoot has been called on two batches of three entries, where
\* the last leaf is paired with a copy of itself, that differ only in the
\* timestamp of the last entry.
C28_Witness ==
  /\ call # <<>>
  /\ call[1] = "calculateMerkleRoot"
  /\ LET txs == call[2][1]
         other == call[2][2]
     IN  /\ Len(txs) = 3
         /\ Len(other) = 3
         /\ txs[1] = other[1]
         /\ txs[2] = other[2]
         /\ txs[3].Timestamp # other[3].Timestamp
         /\ FieldsApart(txs[3], other[3]) = 1
         /\ result[1] # result[2]

\* C29: a persisted block is never modified or removed by a later step, a
\* restart of the process included, and a head that follows persisted blocks
\* is the last of them.
C29_LedgerAppendOnly ==
  [][/\ \A i \in 1..Len(blocks) : Len(blocks') >= i /\ blocks'[i] = blocks[i]
     /\ (blocks # <<>> /\ LatestBlock = <<>> /\ LatestBlock' # <<>>) =>
          LatestBlock'[1].ID = blocks[Len(blocks)].ID]_vars

(***************************************************************************)
(* Further properties of the pool and of the sealing cycle.                *)
(***************************************************************************)
\* The read loop of connection c is running: its client has been received on
\* Register and Read has not returned.
ReadLoopRunning(c) == cliPc[c] \in {"read", "broadcast"}

Persisted(b) == \E i \in 1..Len(blocks) : blocks[i].ID = b.ID

\* C32: while the process runs after a successful Initialize, the head is
\* written only by the step of a sealing tick that follows the loop over the
\* snapshot, once in a tick whose block was persisted and not at all in a
\* tick that is skipped or whose block is not persisted; the new head is the
\* block the tick persisted, one higher than the old head and with the old
\* head's id as previous id; and the head always is a persisted block.
C32_HeadWrittenOncePerSeal ==
  [][/\ (initResult = "ok" /\ sealPc' # "off" /\ LatestBlock' # LatestBlock) =>
          /\ sealPc = "txs" /\ idx > Len(snap) /\ sealPc' = "clear"
          /\ tick.outcome = "running"
          /\ LatestBlock = tick.head0
          /\ Len(blocks) = tick.nBlocks0 + 1
          /\ LatestBlock'[1].ID = blocks[Len(blocks)].ID
          /\ LatestBlock'[1].Height = LatestBlock[1].Height + 1
          /\ LatestBlock'[1].PreviousHash = <<LatestBlock[1].ID>>
     /\ (tick.outcome = "running" /\ tick'.outcome = "sealed") =>
          /\ LatestBlock' = LatestBlock
          /\ LatestBlock # tick.head0
          /\ LatestBlock[1].Height = tick.head0[1].Height + 1
     /\ tick'.outcome \in {"skipped", "failed"} => LatestBlock' = LatestBlock
     /\ (tick.outcome = "running" /\ tick'.outcome = "failed") =>
          LatestBlock = tick.head0 /\ Len(blocks) = tick.nBlocks0
     /\ (LatestBlock # <<>> /\ LatestBlock' # <<>>) =>
          LatestBlock'[1].Height >= LatestBlock[1].Height
     /\ LatestBlock' # <<>> =>
          \E i \in 1..Len(blocks') : blocks'[i].ID = LatestBlock'[1].ID]_vars

\* Two sealing ticks have each persisted a block and moved the head to it.
C32_Witness ==
  /\ sealPc = "clear"
  /\ LatestBlock = block
  /\ LatestBlock[1].Height = 2
  /\ Persisted(LatestBlock[1])

\* C33: while the process runs the mempool is emptied only by the last step
\* of a sealing tick, when the tick's block is persisted, the loop has gone
\* through the whole snapshot and the head is the new block; a tick whose
\* block was persisted ends only with that step, and a tick that is skipped
\* or whose block is not persisted leaves the mempool as it is.
C33_ClearOncePerSeal ==
  [][/\ (sealPc' # "off" /\ Transactions # <<>> /\ Transactions' = <<>>) =>
          /\ sealPc = "clear" /\ sealPc' = "wait"
          /\ tick.outcome = "running" /\ tick'.outcome = "sealed"
     /\ (sealPc = "clear" /\ sealPc' = "wait") =>
          /\ Transactions' = <<>>
          /\ Len(blocks) = tick.nBlocks0 + 1
          /\ blocks[Len(blocks)].ID = block[1].ID
          /\ idx = Len(snap) + 1
          /\ Len(transactions) - tick.nTx0 + Cardinality(tick.failed) = Len(snap)
          /\ LatestBlock = block
     /\ (sealPc \in {"txs", "clear"} /\ sealPc' = "wait") => sealPc = "clear"
     /\ (sealPc = "clear" /\ sealPc' # "off") => sealPc' \in {"clear", "wait"}
     /\ tick'.outcome \in {"skipped", "failed"} => Transactions' = Transactions]_vars

\* A tick in which the insertion of a transaction failed has ended with the
\* mempool cleared.
C33_Witness ==
  /\ sealPc = "wait"
  /\ tick.outcome = "sealed"
  /\ tick.failures
  /\ Transactions = <<>>
  /\ LatestBlock[1].Height >= 1

\* The transactions table has a row of block blockID for the entity dataID.
HasTransaction(blockID, txType, dataID) ==
  \E j \in 1..Len(transactions) :
    /\ transactions[j].BlockID = blockID
    /\ transactions[j].Type = txType
    /\ transactions[j].DataID = dataID

\* C34: a message or channel message whose block id is b has block b in the
\* blocks table and a transaction of block b for it in the transactions
\* table, and the block id of every row of transactions is the id of a row
\* of blocks.
C34_ReferentialIntegrity ==
  /\ \A m \in MessageIDs :
       msgBlockID[m] # <<>> =>
         /\ \E i \in 1..Len(blocks) : blocks[i].ID = msgBlockID[m][1]
         /\ HasTransaction(msgBlockID[m][1], TransactionTypeMessage, m)
  /\ \A m \in ChannelMessageIDs :
       chMsgBlockID[m] # <<>> =>
         /\ \E i \in 1..Len(blocks) : blocks[i].ID = chMsgBlockID[m][1]
         /\ HasTransaction(chMsgBlockID[m][1], TransactionTypeChannelMessage, m)
  /\ \A j \in 1..Len(transactions) :
       \E i \in 1..Len(blocks) : blocks[i].ID = transactions[j].BlockID

\* Sealing has set the block id of a message and of a channel message.
C34_Witness ==
  /\ \E m \in MessageIDs : msgBlockID[m] # <<>>
  /\ \E m \in ChannelMessageIDs : chMsgBlockID[m] # <<>>
  /\ Len(transactions) >= 2

\* The snapshot positions the running tick has passed and whose transaction
\* was inserted, and the rows the tick has inserted so far.
InsertedPositions == {i \in 1..(idx - 1) : i \notin tick.failed}
InsertedRows == SubSeq(transactions, tick.nTx0 + 1, Len(transactions))

\* C35: in a sealing tick the rows of transactions are inserted in the order
\* of the snapshot entries they are made from, and the snapshot holds its
\* entries in the order in which they were added.
C35_TransactionsInSnapshotOrder ==
  sealPc \in {"txs", "clear"} =>
    /\ Len(InsertedRows) = Cardinality(InsertedPositions)
    /\ \A k \in 1..Len(InsertedRows) :
         LET i == CHOOSE p \in InsertedPositions :
                    Cardinality({q \in InsertedPositions : q < p}) = k - 1
         IN  /\ InsertedRows[k].Type = snap[i].Type
             /\ InsertedRows[k].DataID = snap[i].DataID
             /\ InsertedRows[k].BlockID = block[1].ID
    /\ \A p \in 1..Len(snap), q \in 1..Len(snap) : p < q => snap[p].ptr < snap[q].ptr

\* A tick has inserted the transactions of a snapshot of two different entries.
C35_Witness ==
  /\ sealPc = "clear"
  /\ Len(snap) = 2
  /\ snap[1].DataID # snap[2].DataID
  /\ Len(InsertedRows) = 2

MaxHeight == MaxAdds

\* C36: when the sealing cycle runs, the mempool is not empty and the head is
\* at height h, then, unless the process ends, a block above h is persisted,
\* the head moves to it and the mempool is cleared, whichever inserts of
\* transactions and updates of block ids fail on the way.
C36_SealingLiveness ==
  \A h \in 0..MaxHeight :
    (sealPc \in {"wait", "persist", "txs"} /\ Transactions # <<>> /\ LatestBlock[1].Height = h)
      ~> \/ sealPc = "off"
         \/ /\ LatestBlock[1].Height > h
            /\ Persisted(LatestBlock[1])
            /\ Transactions = <<>>

\* After a tick whose block insert failed, a tick in which the insert of a
\* transaction failed has persisted its block and moved the head to it.
C36_Witness ==
  /\ sealPc = "clear"
  /\ tick.failed # {}
  /\ LatestBlock = block
  /\ Persisted(block[1])
  /\ Transactions # <<>>

\* C37: the mempool's lock is not held in any state between two steps, so
\* not while a block or a transaction is being persisted, and an
\* AddToMempool called while a tick is persisting can run at once.
C37_MempoolLockNotHeldAcrossSeal ==
  /\ mempoolMu = "unlocked"
  /\ (sealPc \in {"persist", "txs", "clear"} /\ nAdds < MaxAdds) =>
       \A r \in Refs : ENABLED AddToMempool(r[1], r[2])

\* An entry has been added while a tick was going through its snapshot.
C37_Witness ==
  /\ sealPc = "txs"
  /\ tick.adds
  /\ lastAdd = "ok"
  /\ Len(Transactions) > 0
  /\ mempoolMu = "unlocked"

\* What the ledger keeps: the mempool, the head, the persisted blocks and
\* transactions, and the block ids of the entities.
sealedVars == <<Transactions, LatestBlock, blocks, transactions, msgBlockID, chMsgBlockID>>

\* What the delivery keeps: the statuses, the registry and what was written to
\* the connections and queued for the pool.
deliveryVars == <<msgStatus, Clients, conn, cliOut, reqOut, stale>>

C39_NeverOverCapacity ==
  Capacity >= 1 =>
    /\ Len(Transactions) <= Capacity
    /\ mTransactions.len <= Capacity
    /\ Len(View(arrays, mTransactions)) <= Capacity

\* A full mempool has evicted its oldest entry for a new one, which it holds
\* in the array it was resliced in.
C39_Witness ==
  /\ Capacity >= 1
  /\ Capacity < nAdds
  /\ lastAdd = "ok"
  /\ mTransactions.off > 0
  /\ mTransactions.len = Capacity
  /\ Len(Transactions) = Capacity

====
